---- MODULE Spec2Model ----
(***************************************************************************)
(* Acquisition engine of ML_driven_on-chain_metrics: the chunked backfill  *)
(* of BinanceProvider (get_long_term_data / get_historical_klines), the    *)
(* rate limiter and request layer of BaseDataProvider and its variants,    *)
(* and the MultiProviderManager registry.                                  *)
(***************************************************************************)
EXTENDS Integers, Sequences, FiniteSets, TLC

(***************************************************************************)
(* Bounds of the model                                                     *)
(***************************************************************************)
\* dates given to the backfill are day 0 .. MaxDay
MaxDay == 3
\* an upstream response carries at most MaxRows rows
MaxRows == 2
\* upstream rows open at midnight of day 0 .. MaxOpenDay
MaxOpenDay == 1
\* the wall clock starts at StartClock and stops ticking at MaxClock (ms)
StartClock == 100000
MaxClock == 103000
\* at most MaxObjects provider instances are constructed
MaxObjects == 1
\* at most MaxAcquires returns of the rate limiter are recorded per instance
MaxAcquires == 2
\* the cache is observed over MaxCacheSteps steps of half its lifetime
MaxCacheSteps == 3
\* at most MaxCycles collection cycles are started, the first
\* MaxDirectCycles of them possibly by a direct call of run_full_collection
MaxCycles == 2
MaxDirectCycles == 1

(***************************************************************************)
(* Program constants                                                       *)
(***************************************************************************)
MsPerDay == 86400000
MinutesPerDay == 1440
\* the per-call row cap of get_long_term_data
MaxRowsPerCall == 1000

\* milliseconds in the 60 seconds of _rate_limit_wait
MsPerMinute == 60000
\* the rate_limit each constructor hands to BaseDataProvider.__init__
DuneRateLimit == 30
HyperliquidRateLimit == 100
BinanceRateLimit == 10
DefaultRateLimit == 60
\* self.cache_duration = 3600 seconds, in milliseconds
CacheDuration == 3600000
\* the clock advances in steps of TickMs; a sleep may overshoot by 0 or 100 ms
TickMs == 1000
Overshoots == {0, 100}

Symbols == {"ETHUSDT"}
MarketTypes == {"spot", "futures", "margin"}
Closes == {1, 2}

\* the interval strings of interval_map, and one string outside it
TableIntervals == {"1m", "3m", "5m", "15m", "30m", "1h", "2h", "4h", "6h",
                   "8h", "12h", "1d", "3d", "1w", "1M"}
Intervals == TableIntervals \cup {"10d"}

Days == 0..MaxDay

(***************************************************************************)
(* Pure helpers                                                            *)
(***************************************************************************)
Min(a, b) == IF a < b THEN a ELSE b

\* a faulty default: an interval outside the table counts as one minute
get_interval_minutes_default_minute(iv) ==
    CASE iv = "1m"  -> 1
      [] iv = "3m"  -> 3
      [] iv = "5m"  -> 5
      [] iv = "15m" -> 15
      [] iv = "30m" -> 30
      [] iv = "1h"  -> 60
      [] iv = "2h"  -> 120
      [] iv = "4h"  -> 240
      [] iv = "6h"  -> 360
      [] iv = "8h"  -> 480
      [] iv = "12h" -> 720
      [] iv = "1d"  -> 1440
      [] iv = "3d"  -> 4320
      [] iv = "1w"  -> 10080
      [] iv = "1M"  -> 43800
      [] OTHER      -> 1

\* BinanceProvider._get_interval_minutes: interval_map.get(interval, 1440)
get_interval_minutes(iv) ==
    CASE iv = "1m"  -> 1
      [] iv = "3m"  -> 3
      [] iv = "5m"  -> 5
      [] iv = "15m" -> 15
      [] iv = "30m" -> 30
      [] iv = "1h"  -> 60
      [] iv = "2h"  -> 120
      [] iv = "4h"  -> 240
      [] iv = "6h"  -> 360
      [] iv = "8h"  -> 480
      [] iv = "12h" -> 720
      [] iv = "1d"  -> 1440
      [] iv = "3d"  -> 4320
      [] iv = "1w"  -> 10080
      [] iv = "1M"  -> 43800
      [] OTHER      -> 1440

\* max_days_per_request = (1000 * interval_minutes) // (24 * 60)
max_days_per_request(iv) ==
    (MaxRowsPerCall * get_interval_minutes(iv)) \div MinutesPerDay

\* int(dt.timestamp() * 1000) of a midnight datetime, days counted from day 0
timestamp_ms(day) == day * MsPerDay

\* pd.to_datetime(open_time, unit='ms'): a calendar day and the time of day
to_datetime(ms) == [day |-> ms \div MsPerDay, ms_of_day |-> ms % MsPerDay]

\* ordering of two datetimes
dt_less(a, b) ==
    \/ a.day < b.day
    \/ a.day = b.day /\ a.ms_of_day < b.ms_of_day

\* the empty DataFrame
EmptyDataFrame == << >>

\* the raw rows an upstream response can carry
RawRows == [open_time : {timestamp_ms(d) : d \in 0..MaxOpenDay}, close : Closes]
RawResponses == UNION {[1..n -> RawRows] : n \in 0..MaxRows}

\* pd.DataFrame(data, columns=...) with the datetime and symbol columns added
to_frame(data, symbol) ==
    [i \in 1..Len(data) |->
        [datetime |-> to_datetime(data[i].open_time),
         close    |-> data[i].close,
         symbol   |-> symbol]]

IsSortedByDatetime(df) ==
    \A i \in 1..Len(df) - 1 : ~ dt_less(df[i + 1].datetime, df[i].datetime)

IsPermutationOf(a, b) ==
    /\ Len(a) = Len(b)
    /\ \E p \in Permutations(1..Len(a)) : \A i \in 1..Len(a) : a[i] = b[p[i]]

\* df.sort_values('datetime'): the order of rows with equal keys is left to
\* the sort algorithm (quicksort), so every sorted arrangement is an outcome
sort_values(df) ==
    {s \in [1..Len(df) -> {df[i] : i \in 1..Len(df)}] :
        IsPermutationOf(s, df) /\ IsSortedByDatetime(s)}

RECURSIVE concat(_)
\* pd.concat(all_data, ignore_index=True)
concat(frames) ==
    IF frames = << >> THEN << >>
    ELSE Head(frames) \o concat(Tail(frames))

SameKey(r1, r2) == r1.datetime = r2.datetime /\ r1.symbol = r2.symbol

\* the same with keep='last': a row is dropped when a later row has its key
drop_duplicates_keep_last(df) ==
    SelectSeq([i \in 1..Len(df) |-> [row |-> df[i], idx |-> i]],
              LAMBDA e : \A j \in (e.idx + 1)..Len(df) : ~ SameKey(df[j], e.row))

\* df.drop_duplicates(subset=['datetime', 'symbol']) with the default
\* keep='first': a row is dropped when an earlier row has the same key
drop_duplicates(df) ==
    SelectSeq([i \in 1..Len(df) |-> [row |-> df[i], idx |-> i]],
              LAMBDA e : \A j \in 1..(e.idx - 1) : ~ SameKey(df[j], e.row))

rows_of(indexed) == [i \in 1..Len(indexed) |-> indexed[i].row]

(***************************************************************************)
(* State                                                                   *)
(***************************************************************************)
VARIABLES
    bf_pc,           \* position in get_long_term_data
    symbol,          \* arguments of the running backfill
    interval,
    market_type,
    start_dt,
    end_dt,
    current_start,   \* loop variable of the backfill
    all_data,        \* accumulated non-empty chunk frames
    windows,         \* request windows issued so far (startTime, endTime)
    chunk_data,      \* last return value of get_historical_klines
    fetch_outcome,   \* what the network did on the last chunk request
    complete_df      \* return value of get_long_term_data

bf_vars == <<bf_pc, symbol, interval, market_type, start_dt, end_dt,
             current_start, all_data, windows, chunk_data, fetch_outcome,
             complete_df>>

VARIABLES
    objects,         \* the provider instances constructed so far
    providers,       \* MultiProviderManager.providers: name -> instance
    now,             \* time.time() in milliseconds
    acquire_returns, \* per instance, the times _rate_limit_wait returned
    last_net,        \* the network request the last operation issued, if any
    last_ret         \* what the last operation handed to its caller

pv_vars == <<objects, providers, now, acquire_returns, last_net, last_ret>>

VARIABLES
    pl_pc,           \* "none": no pipeline; else position in the cycle
    pl_manager,      \* what the pipeline's manager holds under each name
    sink,            \* the dataset files under data/raw
    collection_log,  \* DataPipeline.collection_log
    log_file,        \* the rows of data/collection_log.parquet
    cycle,           \* cycles started so far: the timestamp in file names
    all_datasets,    \* datasets returned so far in the running cycle
    trace,           \* per provider or symbol, what its collection met
    summary,         \* the last return value of run_full_collection
    sched,           \* position in schedule_collection
    sched_min,       \* minutes since the job was scheduled or last ran
    sched_runs,      \* cycles run by the scheduler
    interval_minutes \* argument of schedule_collection

pl_vars == <<pl_pc, pl_manager, sink, collection_log, log_file, cycle,
             all_datasets, trace, summary, sched, sched_min, sched_runs,
             interval_minutes>>

vars == <<bf_vars, pv_vars, pl_vars>>

InitBackfill ==
    /\ bf_pc = "idle"
    /\ symbol = "ETHUSDT"
    /\ interval = "1d"
    /\ market_type = "spot"
    /\ start_dt = 0
    /\ end_dt = 0
    /\ current_start = 0
    /\ all_data = << >>
    /\ windows = << >>
    /\ chunk_data = EmptyDataFrame
    /\ fetch_outcome = "none"
    /\ complete_df = EmptyDataFrame

NoRequest == [path |-> "none"]
NoReturn == [op |-> "none"]

InitProviders ==
    /\ objects = << >>
    /\ providers = << >>
    /\ now = StartClock
    /\ acquire_returns = << >>
    /\ last_net = NoRequest
    /\ last_ret = NoReturn

NoManager == [dune |-> FALSE, hyperliquid |-> "none"]
NoSummary == [datasets_collected |-> -1]

InitPipeline ==
    /\ pl_pc = "none"
    /\ pl_manager = NoManager
    /\ sink = {}
    /\ collection_log = << >>
    /\ log_file = << >>
    /\ cycle = 0
    /\ all_datasets = << >>
    /\ trace = << >>
    /\ summary = NoSummary
    /\ sched = "off"
    /\ sched_min = 0
    /\ sched_runs = 0
    /\ interval_minutes = 1

Init == InitBackfill /\ InitProviders /\ InitPipeline

(***************************************************************************)
(* BinanceProvider.get_long_term_data                                      *)
(***************************************************************************)
\* entry: parse the dates, compute the chunk span, initialise the loop
get_long_term_data ==
    /\ bf_pc = "idle"
    /\ \E sym \in Symbols, iv \in Intervals, mt \in MarketTypes,
          sd \in Days, ed \in Days :
        /\ symbol' = sym
        /\ interval' = iv
        /\ market_type' = mt
        /\ start_dt' = sd
        /\ end_dt' = ed
        /\ current_start' = sd
    /\ all_data' = << >>
    /\ windows' = << >>
    /\ chunk_data' = EmptyDataFrame
    /\ fetch_outcome' = "none"
    /\ complete_df' = EmptyDataFrame
    /\ bf_pc' = "loop"
    /\ UNCHANGED pv_vars
    /\ UNCHANGED pl_vars

\* an off-by-one loop test: the loop also runs when current_start = end_dt
loop_condition_inclusive == current_start <= end_dt

\* while current_start < end_dt
loop_condition == current_start < end_dt

\* current_end = min(current_start + timedelta(days=max_days_per_request), end_dt)
current_end == Min(current_start + max_days_per_request(interval), end_dt)

\* a faulty step: the next chunk starts where this one ended
next_start_at_chunk_end == current_end

\* current_start = current_end + timedelta(days=1)
next_start == current_end + 1

\* the return values get_historical_klines can produce for one request:
\* the request raises (RequestException), the body is empty, or rows arrive
klines_returns(outcome, data, sym) ==
    CASE outcome = "failed" -> {EmptyDataFrame}
      [] outcome = "empty"  -> {EmptyDataFrame}
      [] OTHER              -> sort_values(to_frame(data, sym))

\* the bodies the network can deliver: rows only when the request succeeded
\* with data
response_bodies(outcome) ==
    IF outcome = "rows" THEN RawResponses \ {<< >>} ELSE {<< >>}

\* one iteration of the while loop with a valid market_type
backfill_chunk ==
    /\ bf_pc = "loop"
    /\ loop_condition
    /\ market_type \in {"spot", "futures"}
    /\ \E outcome \in {"failed", "empty", "rows"} :
       \E data \in response_bodies(outcome) :
        /\ fetch_outcome' = outcome
        /\ \E ret \in klines_returns(outcome, data, symbol) :
            /\ chunk_data' = ret
            /\ all_data' = IF ret # EmptyDataFrame
                           THEN Append(all_data, ret) ELSE all_data
    /\ windows' = Append(windows, [startTime |-> timestamp_ms(current_start),
                                   endTime   |-> timestamp_ms(current_end)])
    /\ current_start' = next_start
    /\ UNCHANGED <<bf_pc, symbol, interval, market_type, start_dt, end_dt,
                   complete_df>>
    /\ UNCHANGED pv_vars
    /\ UNCHANGED pl_vars

\* get_historical_klines raises ValueError for an unknown market_type before
\* any request is made; the error leaves get_long_term_data
backfill_raise ==
    /\ bf_pc = "loop"
    /\ loop_condition
    /\ market_type \notin {"spot", "futures"}
    /\ bf_pc' = "raised"
    /\ UNCHANGED <<symbol, interval, market_type, start_dt, end_dt,
                   current_start, all_data, windows, chunk_data,
                   fetch_outcome, complete_df>>
    /\ UNCHANGED pv_vars
    /\ UNCHANGED pl_vars

\* the merge applied to the accumulated chunks
merge(frames) == rows_of(drop_duplicates(concat(frames)))

\* loop exit: concatenate, drop duplicates, return
backfill_merge ==
    /\ bf_pc = "loop"
    /\ ~ loop_condition
    /\ complete_df' = IF all_data # << >> THEN merge(all_data)
                      ELSE EmptyDataFrame
    /\ bf_pc' = "done"
    /\ UNCHANGED <<symbol, interval, market_type, start_dt, end_dt,
                   current_start, all_data, windows, chunk_data,
                   fetch_outcome>>
    /\ UNCHANGED pv_vars
    /\ UNCHANGED pl_vars

NextBackfill ==
    \/ get_long_term_data
    \/ backfill_chunk
    \/ backfill_raise
    \/ backfill_merge

SpecBackfill == Init /\ [][NextBackfill]_vars

\* the call, once made, runs on: each iteration and the return are taken
SpecBackfillFair == SpecBackfill /\ WF_vars(NextBackfill)

(***************************************************************************)
(* Provider construction and the manager                                   *)
(***************************************************************************)
ProviderNames == {"dune", "hyperliquid"}
ProviderClasses == {"DuneProvider", "HyperliquidProvider", "BinanceProvider",
                    "CustomProvider"}
\* rate limits a further subclass of BaseDataProvider may pass to __init__
CustomRateLimits == {0, DefaultRateLimit}
NoEntry == [cached_time |-> -1, data |-> "none"]

\* BaseDataProvider.__init__ as reached from each constructor
new_provider(cls, rl) ==
    [cls |-> cls, rate_limit |-> rl, last_request_time |-> 0,
     query_cache |-> NoEntry]

\* the rate_limit a constructor of class cls can pass to super().__init__
class_rate_limits(cls) ==
    CASE cls = "DuneProvider"        -> {DuneRateLimit}
      [] cls = "HyperliquidProvider" -> {HyperliquidRateLimit}
      [] cls = "BinanceProvider"     -> {BinanceRateLimit}
      [] OTHER                       -> CustomRateLimits

\* a provider constructor; DuneProvider raises ValueError without an API key
construct ==
    /\ Len(objects) < MaxObjects
    /\ \E cls \in ProviderClasses, has_key \in BOOLEAN :
        \E rl \in class_rate_limits(cls) :
            IF cls = "DuneProvider" /\ ~ has_key
            THEN /\ last_ret' = [op |-> "__init__", kind |-> "error",
                                 value |-> "ValueError"]
                 /\ UNCHANGED <<objects, acquire_returns>>
            ELSE /\ objects' = Append(objects, new_provider(cls, rl))
                 /\ acquire_returns' = Append(acquire_returns, << >>)
                 /\ last_ret' = [op |-> "__init__", kind |-> "value",
                                 value |-> cls]
    /\ last_net' = NoRequest
    /\ UNCHANGED <<providers, now>>
    /\ UNCHANGED bf_vars
    /\ UNCHANGED pl_vars

\* MultiProviderManager.add_provider: self.providers[name] = provider
add_provider ==
    /\ \E name \in ProviderNames, idx \in 1..Len(objects) :
        /\ providers' = [n \in DOMAIN providers \cup {name} |->
                            IF n = name THEN idx ELSE providers[n]]
        /\ last_ret' = [op |-> "add_provider", kind |-> "value",
                        value |-> "None", name |-> name, provider |-> idx]
    /\ last_net' = NoRequest
    /\ UNCHANGED <<objects, now, acquire_returns>>
    /\ UNCHANGED bf_vars
    /\ UNCHANGED pl_vars

\* what self.providers.get(name) returns for a name that is not a key
NoProvider == 0

\* MultiProviderManager.get_provider: self.providers.get(name)
get_provider ==
    /\ \E name \in ProviderNames :
        last_ret' = [op |-> "get_provider", kind |-> "value", name |-> name,
                     value |-> IF name \in DOMAIN providers
                               THEN providers[name] ELSE NoProvider]
    /\ last_net' = NoRequest
    /\ UNCHANGED <<objects, providers, now, acquire_returns>>
    /\ UNCHANGED bf_vars
    /\ UNCHANGED pl_vars

\* a faulty removal: the name stays registered
del_provider_kept(regs, name) == regs

\* del self.providers[name]
del_provider(regs, name) == [n \in DOMAIN regs \ {name} |-> regs[n]]

\* MultiProviderManager.remove_provider: the entry is deleted when the name
\* is a key, otherwise nothing happens
remove_provider ==
    /\ \E name \in ProviderNames :
        /\ providers' = IF name \in DOMAIN providers
                        THEN del_provider(providers, name) ELSE providers
        /\ last_ret' = [op |-> "remove_provider", kind |-> "value",
                        value |-> "None", name |-> name]
    /\ last_net' = NoRequest
    /\ UNCHANGED <<objects, now, acquire_returns>>
    /\ UNCHANGED bf_vars
    /\ UNCHANGED pl_vars

\* the wall clock advances between calls
tick ==
    /\ now + TickMs <= MaxClock
    /\ now' = now + TickMs
    /\ UNCHANGED <<objects, providers, acquire_returns, last_net, last_ret>>
    /\ UNCHANGED bf_vars
    /\ UNCHANGED pl_vars

(***************************************************************************)
(* BaseDataProvider._rate_limit_wait and _make_request                     *)
(***************************************************************************)
\* a faulty interval: rate_limit / 60 seconds instead of 60 / rate_limit
min_interval_inverted(rl) == (rl * 1000) \div 60

\* min_interval = 60 / self.rate_limit, in milliseconds
min_interval(rl) == MsPerMinute \div rl

\* sleep_time of _rate_limit_wait for an instance o when the clock reads t
sleep_time(o, t) ==
    IF t - o.last_request_time < min_interval(o.rate_limit)
    THEN min_interval(o.rate_limit) - (t - o.last_request_time)
    ELSE 0

\* the clock readings time.time() can give at the end of _rate_limit_wait:
\* time.sleep sleeps at least sleep_time, possibly longer
wait_returns(o, t) == {t + sleep_time(o, t) + over : over \in Overshoots}

FailureOutcomes == {"timeout", "connection", "http_error", "decode_error"}
Outcomes == {"ok"} \cup FailureOutcomes

\* the exception requests raises for a failed request
exception_of(outcome) ==
    CASE outcome = "timeout"      -> "Timeout"
      [] outcome = "connection"   -> "ConnectionError"
      [] outcome = "http_error"   -> "HTTPError"
      [] OTHER                    -> "JSONDecodeError"

\* BaseDataProvider._make_request on instance idx
make_request ==
    /\ \E idx \in 1..Len(objects), method \in {"GET", "POST", "PUT"},
          outcome \in Outcomes :
        LET o == objects[idx] IN
        IF o.rate_limit = 0
        THEN \* 60 / self.rate_limit raises ZeroDivisionError
             /\ last_ret' = [op |-> "_make_request", kind |-> "error",
                             value |-> "ZeroDivisionError"]
             /\ last_net' = NoRequest
             /\ UNCHANGED <<objects, now, acquire_returns>>
        ELSE /\ Len(acquire_returns[idx]) < MaxAcquires
             /\ \E t \in wait_returns(o, now) :
                 /\ now' = t
                 /\ objects' = [objects EXCEPT ![idx].last_request_time = t]
                 /\ acquire_returns' =
                       [acquire_returns EXCEPT ![idx] = Append(@, t)]
             /\ IF method \in {"GET", "POST"}
                THEN /\ last_net' = [path |-> "_make_request", obj |-> idx,
                                     limited |-> TRUE, outcome |-> outcome]
                     /\ last_ret' =
                           IF outcome = "ok"
                           THEN [op |-> "_make_request", kind |-> "value",
                                 value |-> "json"]
                           ELSE [op |-> "_make_request", kind |-> "error",
                                 value |-> exception_of(outcome)]
                ELSE /\ last_ret' = [op |-> "_make_request", kind |-> "error",
                                     value |-> "ValueError"]
                     /\ last_net' = NoRequest
    /\ UNCHANGED providers
    /\ UNCHANGED bf_vars
    /\ UNCHANGED pl_vars

(***************************************************************************)
(* The request paths of the provider variants                              *)
(***************************************************************************)
\* HyperliquidProvider._make_info_request: requests.post, any exception is
\* logged and {} is returned
make_info_request ==
    /\ \E idx \in 1..Len(objects), outcome \in Outcomes \cup {"ok_empty"} :
        /\ objects[idx].cls = "HyperliquidProvider"
        /\ last_net' = [path |-> "_make_info_request", obj |-> idx,
                        limited |-> FALSE, outcome |-> outcome]
        /\ last_ret' = [op |-> "_make_info_request", kind |-> "value",
                        value |-> IF outcome = "ok" THEN "json" ELSE "{}"]
    /\ UNCHANGED <<objects, providers, now, acquire_returns>>
    /\ UNCHANGED bf_vars
    /\ UNCHANGED pl_vars

\* BinanceProvider.get_historical_klines called on its own
get_historical_klines ==
    /\ \E idx \in 1..Len(objects), mt \in MarketTypes,
          outcome \in Outcomes \cup {"ok_empty"} :
       \E data \in response_bodies(IF outcome = "ok" THEN "rows" ELSE "empty") :
        /\ objects[idx].cls = "BinanceProvider"
        /\ IF mt \notin {"spot", "futures"}
           THEN /\ outcome = "ok_empty"
                /\ last_ret' = [op |-> "get_historical_klines",
                                kind |-> "error", value |-> "ValueError"]
                /\ last_net' = NoRequest
           ELSE /\ last_net' = [path |-> "get_historical_klines", obj |-> idx,
                                limited |-> FALSE, outcome |-> outcome]
                /\ \E ret \in klines_returns(
                                 IF outcome = "ok" THEN "rows"
                                 ELSE IF outcome = "ok_empty" THEN "empty"
                                 ELSE "failed", data, "ETHUSDT") :
                     last_ret' = [op |-> "get_historical_klines",
                                  kind |-> "value",
                                  value |-> IF ret = EmptyDataFrame
                                            THEN "empty" ELSE "rows",
                                  frame |-> ret]
    /\ UNCHANGED <<objects, providers, now, acquire_returns>>
    /\ UNCHANGED bf_vars
    /\ UNCHANGED pl_vars

(***************************************************************************)
(* HyperliquidProvider.get_market_data                                     *)
(***************************************************************************)
\* the keys of the candle dictionaries of a response: the ten documented
\* ones, a few of them, one more key x, or none that carries the open time
HlColumnLists ==
    {<<"t", "T", "s", "i", "o", "c", "h", "l", "v", "n">>,
     <<"t", "o", "c">>,
     <<"t", "o", "c", "x">>,
     <<"o", "c">>}

\* the if/elif chain that names the columns
rename_column(col) ==
    CASE col = "t" -> "timestamp"
      [] col = "T" -> "timestamp_end"
      [] col = "s" -> "symbol_api"
      [] col = "i" -> "interval_api"
      [] col = "o" -> "open"
      [] col = "c" -> "close"
      [] col = "h" -> "high"
      [] col = "l" -> "low"
      [] col = "v" -> "volume"
      [] col = "n" -> "trades"
      [] OTHER     -> "unknown_" \o col

\* df.columns = new_column_names
renamed_columns(cols) == [i \in 1..Len(cols) |-> rename_column(cols[i])]

\* the columns of df as a set
column_set(cols) == {cols[i] : i \in 1..Len(cols)}

\* keep_cols, with trades appended when df has it
keep_cols(cols) ==
    IF "trades" \in column_set(cols)
    THEN <<"open", "high", "low", "close", "volume", "symbol", "trades">>
    ELSE <<"open", "high", "low", "close", "volume", "symbol">>

\* existing_cols = [col for col in keep_cols if col in df.columns], after
\* set_index has taken timestamp out of the columns and symbol was added
existing_cols(cols) ==
    SelectSeq(keep_cols(cols),
              LAMBDA c : c \in (column_set(cols) \ {"timestamp"})
                                   \cup {"symbol"})

\* the rows with pd.to_datetime(t, unit='ms') as their index
timestamp_rows(data, sym) ==
    [i \in 1..Len(data) |->
        [timestamp |-> to_datetime(data[i].open_time),
         close     |-> data[i].close,
         symbol    |-> sym]]

IsSortedByTimestamp(rows) ==
    \A i \in 1..Len(rows) - 1 :
        ~ dt_less(rows[i + 1].timestamp, rows[i].timestamp)

\* df.set_index('timestamp').sort_index(): rows with equal index values come
\* out in an order the sort algorithm chooses
sort_index(rows) ==
    {s \in [1..Len(rows) -> {rows[i] : i \in 1..Len(rows)}] :
        IsPermutationOf(s, rows) /\ IsSortedByTimestamp(s)}

\* the rows of a frame that has no t column: the default index, no sort
unindexed_rows(data, sym) ==
    [i \in 1..Len(data) |-> [close |-> data[i].close, symbol |-> sym]]

\* the frames get_market_data can return for a list of candle dictionaries
market_data_frames(cols, data, sym) ==
    LET named == renamed_columns(cols)
    IN IF "timestamp" \in column_set(named)
       THEN {[index |-> "timestamp", columns |-> existing_cols(named),
              rows |-> r] : r \in sort_index(timestamp_rows(data, sym))}
       ELSE {[index |-> "range", columns |-> existing_cols(named),
              rows |-> unindexed_rows(data, sym)]}

\* what a successful info request can carry: a list of candles or a
\* dictionary
HlBodies == {"list", "dict"}

\* HyperliquidProvider.get_market_data(symbol): an empty frame without a
\* symbol, for an empty or failed response and for a response that is not a
\* list; else the renamed, indexed, sorted and cut frame
get_market_data ==
    /\ \E idx \in 1..Len(objects), sym \in {"", "ETH", "BTC"},
          outcome \in Outcomes \cup {"ok_empty"}, body \in HlBodies,
          cols \in HlColumnLists :
       \E data \in response_bodies(IF outcome = "ok" /\ body = "list"
                                   THEN "rows" ELSE "empty") :
        /\ objects[idx].cls = "HyperliquidProvider"
        /\ IF sym = ""
           THEN /\ last_net' = NoRequest
                /\ last_ret' = [op |-> "get_market_data", kind |-> "value",
                                value |-> "empty"]
           ELSE /\ last_net' = [path |-> "_make_info_request", obj |-> idx,
                                limited |-> FALSE, outcome |-> outcome]
                /\ IF outcome = "ok" /\ body = "list"
                   THEN \E df \in market_data_frames(cols, data, sym) :
                          last_ret' = [op |-> "get_market_data",
                                       kind |-> "value", value |-> "rows",
                                       raw_columns |-> column_set(cols),
                                       frame |-> df]
                   ELSE last_ret' = [op |-> "get_market_data",
                                     kind |-> "value", value |-> "empty"]
    /\ UNCHANGED <<objects, providers, now, acquire_returns>>
    /\ UNCHANGED bf_vars
    /\ UNCHANGED pl_vars

\* single market-data fetches of Hyperliquid and Binance
NextMarketData ==
    \/ construct
    \/ get_market_data
    \/ get_historical_klines

SpecMarketData == Init /\ [][NextMarketData]_vars

\* a faulty freshness test: an entry exactly cache_duration old still counts
cache_fresh_inclusive(o, t) == t - o.query_cache.cached_time <= CacheDuration

\* time.time() - cached_time < self.cache_duration
cache_fresh(o, t) == t - o.query_cache.cached_time < CacheDuration

\* the frames a Dune query can deliver: with rows or without
DuneFrames == {"rows", "empty"}

\* a faulty failure path that evicts the entry
cache_after_failure_evicted(o) == NoEntry

\* the except branch logs and re-raises; query_cache is not touched
cache_after_failure(o) == o.query_cache

\* what one call of get_query_result on instance o at time t can do: the
\* value or error handed back, what the upstream call did (none when the
\* cache answered) and the cache entry afterwards
query_result_outcomes(o, t, use_cache) ==
    IF use_cache /\ o.query_cache # NoEntry /\ cache_fresh(o, t)
    THEN {[kind |-> "value", value |-> o.query_cache.data, net |-> "none",
           cache |-> o.query_cache]}
    ELSE {[kind |-> "value", value |-> d, net |-> "ok",
           cache |-> [cached_time |-> t, data |-> d]] : d \in DuneFrames}
         \cup
         {[kind |-> "error", value |-> exception_of(f), net |-> f,
           cache |-> cache_after_failure(o)] : f \in FailureOutcomes}

\* DuneProvider.get_query_result for the bot_volume query
get_query_result ==
    /\ \E idx \in 1..Len(objects), use_cache \in BOOLEAN :
       \E r \in query_result_outcomes(objects[idx], now, use_cache) :
        /\ objects[idx].cls = "DuneProvider"
        /\ objects' = [objects EXCEPT ![idx].query_cache = r.cache]
        /\ last_net' = IF r.net = "none" THEN NoRequest
                       ELSE [path |-> "get_query_result", obj |-> idx,
                             limited |-> FALSE, outcome |-> r.net]
        /\ last_ret' = [op |-> "get_query_result", obj |-> idx,
                        use_cache |-> use_cache, kind |-> r.kind,
                        value |-> r.value, at |-> now,
                        found |-> objects[idx].query_cache]
    /\ UNCHANGED <<providers, now, acquire_returns>>
    /\ UNCHANGED bf_vars
    /\ UNCHANGED pl_vars

(***************************************************************************)
(* validate_connection of the provider variants                            *)
(***************************************************************************)
\* a Python bool as a value that can sit next to the mark of a raised
\* exception
py_bool(b) == IF b THEN "True" ELSE "False"

\* what a ping can do: answer 200, answer another status, or raise
PingOutcomes == {"200", "503", "raise"}

\* HyperliquidProvider.validate_connection: get_all_mids posts one info
\* request; an empty or failed response gives an empty frame, hence False
hyperliquid_validate(o) ==
    {[ret |-> py_bool(oc = "ok"), requests |-> 1,
      failed |-> (oc \in FailureOutcomes),
      cache |-> o.query_cache] : oc \in Outcomes \cup {"ok_empty"}}

\* a faulty result: connected when either ping answered 200
binance_validate_either(o) ==
    {[ret |-> "False", requests |-> 1, failed |-> TRUE, cache |-> o.query_cache]}
    \cup
    UNION {{IF f = "raise"
            THEN [ret |-> "False", requests |-> 2, failed |-> TRUE,
                  cache |-> o.query_cache]
            ELSE [ret |-> py_bool(sp = "200" \/ f = "200"), requests |-> 2,
                  failed |-> (sp # "200" \/ f # "200"),
                  cache |-> o.query_cache] : f \in PingOutcomes}
           : sp \in PingOutcomes \ {"raise"}}

\* BinanceProvider.validate_connection: ping spot, then ping futures; an
\* exception at either ping gives False
binance_validate(o) ==
    {[ret |-> "False", requests |-> 1, failed |-> TRUE, cache |-> o.query_cache]}
    \cup
    UNION {{IF f = "raise"
            THEN [ret |-> "False", requests |-> 2, failed |-> TRUE,
                  cache |-> o.query_cache]
            ELSE [ret |-> py_bool(sp = "200" /\ f = "200"), requests |-> 2,
                  failed |-> (sp # "200" \/ f # "200"),
                  cache |-> o.query_cache] : f \in PingOutcomes}
           : sp \in PingOutcomes \ {"raise"}}

\* DuneProvider.validate_connection: get_query_result(bot_volume) with the
\* cache enabled; len(df) > 0, and False on any exception
dune_validate(o, t) ==
    {[ret |-> py_bool(r.kind = "value" /\ r.value = "rows"),
      requests |-> IF r.net = "none" THEN 0 ELSE 1,
      failed |-> (r.kind = "error"),
      cache |-> r.cache] : r \in query_result_outcomes(o, t, TRUE)}

\* validate_connection of a further subclass: abstract in the base class, so
\* it may answer either way or raise
custom_validate(o) ==
    {[ret |-> v, requests |-> 1, failed |-> (v # "True"),
      cache |-> o.query_cache] : v \in {"True", "False", "raise"}}

\* provider.validate_connection() dispatched on the class of the instance
validate_connection_outcomes(o, t) ==
    CASE o.cls = "DuneProvider"        -> dune_validate(o, t)
      [] o.cls = "HyperliquidProvider" -> hyperliquid_validate(o)
      [] o.cls = "BinanceProvider"     -> binance_validate(o)
      [] OTHER                         -> custom_validate(o)

\* validate_connection called on instance idx
validate_connection ==
    /\ \E idx \in 1..Len(objects) :
       \E r \in validate_connection_outcomes(objects[idx], now) :
        /\ objects' = [objects EXCEPT ![idx].query_cache = r.cache]
        /\ last_ret' = [op |-> "validate_connection", obj |-> idx,
                        cls |-> objects[idx].cls,
                        kind |-> IF r.ret = "raise" THEN "error" ELSE "value",
                        value |-> r.ret, requests |-> r.requests,
                        failed |-> r.failed]
        /\ last_net' = IF r.requests = 0 THEN NoRequest
                       ELSE [path |-> "validate_connection", obj |-> idx,
                             limited |-> FALSE,
                             outcome |-> IF r.failed THEN "failed" ELSE "ok"]
    /\ UNCHANGED <<providers, now, acquire_returns>>
    /\ UNCHANGED bf_vars
    /\ UNCHANGED pl_vars

(***************************************************************************)
(* MultiProviderManager.test_all_connections and get_health_status         *)
(***************************************************************************)
\* a faulty handler: a provider whose validate_connection raised counts as
\* connected
connection_result_true_on_raise(outcome) ==
    IF outcome = "raise" THEN "True" ELSE outcome

\* results[name] = provider.validate_connection(), or False in the except
connection_result(outcome) ==
    IF outcome = "raise" THEN "False" ELSE outcome

\* the orders in which the names of a dict can be iterated
NameOrders(S) ==
    {ord \in [1..Cardinality(S) -> S] :
        \A i, j \in 1..Cardinality(S) : ord[i] = ord[j] => i = j}

\* f with name n mapped to v
WithEntry(f, n, v) ==
    [m \in DOMAIN f \cup {n} |-> IF m = n THEN v ELSE f[m]]

RECURSIVE test_connections(_, _, _, _)
\* the loop of test_all_connections over the names in order: the results so
\* far, what each validate_connection did, and the instances afterwards
test_connections(order, regs, objs, t) ==
    IF order = << >>
    THEN {[results |-> << >>, validated |-> << >>, objects |-> objs]}
    ELSE LET n   == Head(order)
             idx == regs[n]
         IN UNION {
              {[results   |-> WithEntry(rest.results, n,
                                        connection_result(r.ret)),
                validated |-> WithEntry(rest.validated, n, r.ret),
                objects   |-> rest.objects]
                 : rest \in test_connections(Tail(order), regs,
                       [objs EXCEPT ![idx].query_cache = r.cache], t)}
              : r \in validate_connection_outcomes(objs[idx], t)}

\* MultiProviderManager.test_all_connections
test_all_connections ==
    /\ \E order \in NameOrders(DOMAIN providers) :
       \E res \in test_connections(order, providers, objects, now) :
        /\ objects' = res.objects
        /\ last_ret' = [op |-> "test_all_connections", kind |-> "value",
                        value |-> res.results, validated |-> res.validated]
    /\ last_net' = NoRequest
    /\ UNCHANGED <<providers, now, acquire_returns>>
    /\ UNCHANGED bf_vars
    /\ UNCHANGED pl_vars

\* the record BaseDataProvider.health_check builds from validate_connection
health_check(o, outcome) ==
    IF outcome = "raise"
    THEN [provider |-> o.cls, status |-> "error", error |-> "Exception",
          last_check |-> "now"]
    ELSE [provider |-> o.cls,
          status |-> IF outcome = "True" THEN "healthy" ELSE "unhealthy",
          last_check |-> "now", rate_limit |-> o.rate_limit]

\* provider.get_health_status(): no class defines the method, the call
\* raises AttributeError and the manager stores {'error': str(e)}
provider_health_status(o) == [error |-> "AttributeError"]

\* MultiProviderManager.get_health_status
get_health_status ==
    /\ providers # << >>
    /\ last_ret' = [op |-> "get_health_status", kind |-> "value",
                    value |-> [n \in DOMAIN providers |->
                                  provider_health_status(objects[providers[n]])]]
    /\ last_net' = NoRequest
    /\ UNCHANGED <<objects, providers, now, acquire_returns>>
    /\ UNCHANGED bf_vars
    /\ UNCHANGED pl_vars

(***************************************************************************)
(* setup_providers                                                         *)
(***************************************************************************)
\* the instances factory.setup_providers builds: Dune when DUNE_API_KEY is
\* set and its constructor does not raise, Hyperliquid unless its constructor
\* raises
setup_objects(has_key, dune_ok, hl_ok) ==
    (IF has_key /\ dune_ok
     THEN << new_provider("DuneProvider", DuneRateLimit) >> ELSE << >>)
    \o
    (IF hl_ok
     THEN << new_provider("HyperliquidProvider", HyperliquidRateLimit) >>
     ELSE << >>)

\* the names the new instances are registered under, by position
setup_names(has_key, dune_ok, hl_ok) ==
    (IF has_key /\ dune_ok THEN << "dune" >> ELSE << >>)
    \o (IF hl_ok THEN << "hyperliquid" >> ELSE << >>)

\* setup_providers of factory.py, called once for a fresh manager
factory_setup_providers ==
    /\ providers = << >>
    /\ Len(objects) <= MaxObjects
    /\ \E has_key \in BOOLEAN, dune_ok \in BOOLEAN, hl_ok \in BOOLEAN :
        LET objs  == setup_objects(has_key, dune_ok, hl_ok)
            names == setup_names(has_key, dune_ok, hl_ok)
            base  == Len(objects)
        IN /\ objects' = objects \o objs
           /\ acquire_returns' =
                 acquire_returns \o [i \in 1..Len(objs) |-> << >>]
           /\ providers' = [n \in {names[i] : i \in 1..Len(names)} |->
                 base + (CHOOSE i \in 1..Len(names) : names[i] = n)]
           /\ last_ret' = [op |-> "factory.setup_providers", kind |-> "value",
                           value |-> "manager", has_key |-> has_key,
                           dune_ok |-> dune_ok, hl_ok |-> hl_ok]
    /\ last_net' = NoRequest
    /\ UNCHANGED now
    /\ UNCHANGED bf_vars
    /\ UNCHANGED pl_vars

\* setup_providers as exported by the data_providers package: the definition
\* at the end of __init__.py replaces the imported one; its first statement
\* names DataProviderManager, which is not defined, and raises NameError
package_setup_providers ==
    /\ providers = << >>
    /\ last_ret' = [op |-> "setup_providers", kind |-> "error",
                    value |-> "NameError"]
    /\ last_net' = NoRequest
    /\ UNCHANGED <<objects, providers, now, acquire_returns>>
    /\ UNCHANGED bf_vars
    /\ UNCHANGED pl_vars

\* a manager set up or filled by hand, and its connection and health checks
NextRegistry ==
    \/ construct
    \/ add_provider
    \/ factory_setup_providers
    \/ package_setup_providers
    \/ validate_connection
    \/ test_all_connections
    \/ get_health_status

SpecRegistry == Init /\ [][NextRegistry]_vars

\* construction, registration and use of providers through the manager
NextManager ==
    \/ construct
    \/ add_provider
    \/ make_request

SpecManager == Init /\ [][NextManager]_vars

\* MultiProviderManager.get_active_providers: list(self.providers.keys())
get_active_providers ==
    /\ \E order \in NameOrders(DOMAIN providers) :
        last_ret' = [op |-> "get_active_providers", kind |-> "value",
                     value |-> order]
    /\ last_net' = NoRequest
    /\ UNCHANGED <<objects, providers, now, acquire_returns>>
    /\ UNCHANGED bf_vars
    /\ UNCHANGED pl_vars

\* the calls of a manager's registry, on a manager that setup_providers
\* filled first
NextRegistryCalls ==
    \/ factory_setup_providers
    \/ add_provider
    \/ remove_provider
    \/ get_provider
    \/ get_active_providers
    \/ test_all_connections

SpecRegistryCalls == Init /\ [][NextRegistryCalls]_vars

\* one or more instances used through the rate-limited request of the base
NextLimiter ==
    \/ construct
    \/ tick
    \/ make_request

SpecLimiter == Init /\ [][NextLimiter]_vars

\* half the lifetime of a cache entry passes between two calls
CacheStep == CacheDuration \div 2

cache_tick ==
    /\ now + CacheStep <= StartClock + MaxCacheSteps * CacheStep
    /\ now' = now + CacheStep
    /\ UNCHANGED <<objects, providers, acquire_returns, last_net, last_ret>>
    /\ UNCHANGED bf_vars
    /\ UNCHANGED pl_vars

\* a Dune provider queried repeatedly while its cache entry ages
NextCache ==
    \/ construct
    \/ cache_tick
    \/ get_query_result

SpecCache == Init /\ [][NextCache]_vars

\* every request path of the base class and of the three variants
NextRequests ==
    \/ construct
    \/ make_request
    \/ make_info_request
    \/ get_historical_klines
    \/ get_query_result

SpecRequests == Init /\ [][NextRequests]_vars

(***************************************************************************)
(* DataPipeline: one collection cycle                                      *)
(***************************************************************************)
\* what a provider call hands back: a frame with rows, an empty frame, or an
\* exception
FrameOutcomes == {"rows", "empty", "raise"}
\* what to_parquet does
WriteOutcomes == {"ok", "raise"}
\* len() of a frame that has rows
RowsPerFrame == 2

\* the file a dataset is written to: provider, dataset and the timestamp of
\* the cycle make up its name
dataset_file(provider, dataset, stamp) ==
    [provider |-> provider, dataset |-> dataset, stamp |-> stamp]

\* the record appended to collection_log for a written dataset
log_record(provider, dataset, rows, file) ==
    [provider |-> provider, dataset |-> dataset, rows |-> rows, file |-> file]

\* self.collection_log.append(rec)
append_log(log, rec) == Append(log, rec)

\* one "if len(frame) > 0: datasets[name] = frame; frame.to_parquet(file);
\* collection_log.append(...)" block inside a try: skipped once an earlier
\* statement of the try has raised; logged tells whether the block appends
stage(st, provider, dataset, stamp, frame, write, logged) ==
    LET file == dataset_file(provider, dataset, stamp)
        ds   == WithEntry(st.datasets, dataset, RowsPerFrame)
    IN IF st.raised THEN st
       ELSE IF frame = "raise" THEN [st EXCEPT !.raised = TRUE]
       ELSE IF frame = "empty" THEN st
       ELSE IF write = "raise"
            THEN [st EXCEPT !.datasets = ds, !.raised = TRUE]
            ELSE [files    |-> st.files \cup {file},
                  log      |-> IF logged
                               THEN append_log(st.log,
                                      log_record(provider, dataset,
                                                 RowsPerFrame, file))
                               ELSE st.log,
                  datasets |-> ds,
                  raised   |-> FALSE]

\* what the calls on a provider of another subclass hand back
CustomOutcomes == {"rows", "raise"}

\* get_market_data(symbol, '1h'): HyperliquidProvider catches every
\* exception and returns an empty frame
market_data_outcomes(cls) ==
    IF cls = "HyperliquidProvider" THEN {"rows", "empty"} ELSE CustomOutcomes

\* get_funding_rates(symbol): HyperliquidProvider.get_funding_rates takes no
\* symbol, so the call raises TypeError
funding_outcomes(cls) ==
    IF cls = "HyperliquidProvider" THEN {"raise"} ELSE CustomOutcomes

\* get_recent_trades(symbol): HyperliquidProvider catches every exception
recent_trades_outcomes(cls) ==
    IF cls = "HyperliquidProvider" THEN {"rows", "empty"} ELSE CustomOutcomes

\* what the collection of one provider or symbol met: the first fetch, the
\* first write if there was one, and whether the try ended in its except
trace_entry(frame, write, raised) ==
    [fetch  |-> frame,
     write  |-> IF frame = "rows" THEN write ELSE "none",
     raised |-> raised]

\* a faulty loop that gives up on the remaining symbols after a failure
after_symbol_stop_on_failure(sym, raised) ==
    IF raised \/ sym = "BTC" THEN "summary" ELSE "BTC"

\* for symbol in ['ETH', 'BTC']: the except ends the iteration, not the loop
after_symbol(sym, raised) ==
    IF sym = "ETH" THEN "BTC" ELSE "summary"

RECURSIVE total_rows(_)
\* sum(len(df) for df in all_datasets.values())
total_rows(ds) ==
    IF DOMAIN ds = {} THEN 0
    ELSE LET n == CHOOSE m \in DOMAIN ds : TRUE
         IN ds[n] + total_rows([m \in DOMAIN ds \ {n} |-> ds[m]])

\* DataPipeline(): __init__ calls the setup_providers of the data_providers
\* package, which raises NameError; no pipeline comes into being
DataPipeline_init ==
    /\ pl_pc = "none"
    /\ last_ret' = [op |-> "DataPipeline.__init__", kind |-> "error",
                    value |-> "NameError"]
    /\ last_net' = NoRequest
    /\ UNCHANGED <<objects, providers, now, acquire_returns>>
    /\ UNCHANGED bf_vars
    /\ UNCHANGED pl_vars

\* DataPipeline() with setup_providers bound to the definition of factory.py,
\* the MultiProviderManager the methods of the class work on: directories are
\* created if missing, the manager is set up, the log starts empty
DataPipeline_init_factory_setup ==
    /\ pl_pc = "none"
    /\ \E has_key \in BOOLEAN, dune_ok \in BOOLEAN, hl_ok \in BOOLEAN :
        pl_manager' = [dune        |-> has_key /\ dune_ok,
                       hyperliquid |-> IF hl_ok THEN "HyperliquidProvider"
                                       ELSE "none"]
    /\ collection_log' = << >>
    /\ pl_pc' = "idle"
    /\ UNCHANGED <<sink, log_file, cycle, all_datasets, trace, summary, sched,
                   sched_min, sched_runs, interval_minutes>>
    /\ UNCHANGED bf_vars
    /\ UNCHANGED pv_vars

\* a later process constructs a DataPipeline on the same data directory:
\* the directories and files are there, the manager is set up anew and the
\* log in memory starts empty
DataPipeline_init_again ==
    /\ pl_pc \in {"idle", "aborted"}
    /\ sched \in {"off", "stopped", "crashed"}
    /\ \E has_key \in BOOLEAN, dune_ok \in BOOLEAN, hl_ok \in BOOLEAN :
        pl_manager' = [dune        |-> has_key /\ dune_ok,
                       hyperliquid |-> IF hl_ok THEN "HyperliquidProvider"
                                       ELSE "none"]
    /\ collection_log' = << >>
    /\ pl_pc' = "idle"
    /\ sched' = "off"
    /\ sched_min' = 0
    /\ sched_runs' = 0
    /\ UNCHANGED <<sink, log_file, cycle, all_datasets, trace, summary,
                   interval_minutes>>
    /\ UNCHANGED bf_vars
    /\ UNCHANGED pv_vars

\* pipeline.manager.add_provider('hyperliquid', p) with p of another
\* subclass of BaseDataProvider
pipeline_add_provider ==
    /\ pl_pc = "idle"
    /\ sched = "off"
    /\ pl_manager' = [pl_manager EXCEPT !.hyperliquid = "CustomProvider"]
    /\ UNCHANGED <<pl_pc, sink, collection_log, log_file, cycle, all_datasets,
                   trace, summary, sched, sched_min, sched_runs,
                   interval_minutes>>
    /\ UNCHANGED bf_vars
    /\ UNCHANGED pv_vars

\* the head of run_full_collection
begin_cycle ==
    /\ cycle' = cycle + 1
    /\ all_datasets' = << >>
    /\ trace' = << >>
    /\ pl_pc' = "dune"

\* run_full_collection called directly
run_full_collection ==
    /\ pl_pc = "idle"
    /\ sched = "off"
    /\ cycle < MaxDirectCycles
    /\ begin_cycle
    /\ UNCHANGED <<pl_manager, sink, collection_log, log_file, summary, sched,
                   sched_min, sched_runs, interval_minutes>>
    /\ UNCHANGED bf_vars
    /\ UNCHANGED pv_vars

\* collect_dune_data and all_datasets.update(dune_data)
collect_dune_data ==
    /\ pl_pc = "dune"
    /\ IF ~ pl_manager.dune
       THEN UNCHANGED <<sink, collection_log, all_datasets, trace>>
       ELSE \E frame \in FrameOutcomes, write \in WriteOutcomes :
             LET st == stage([files |-> sink, log |-> collection_log,
                              datasets |-> all_datasets, raised |-> FALSE],
                             "dune", "bot_volume", cycle, frame, write, TRUE)
             IN /\ sink' = st.files
                /\ collection_log' = st.log
                /\ all_datasets' = st.datasets
                /\ trace' = WithEntry(trace, "dune",
                                      trace_entry(frame, write, st.raised))
    /\ pl_pc' = "ETH"
    /\ UNCHANGED <<pl_manager, log_file, cycle, summary, sched, sched_min,
                   sched_runs, interval_minutes>>
    /\ UNCHANGED bf_vars
    /\ UNCHANGED pv_vars

\* collect_hyperliquid_data, one iteration of its loop per step, and
\* all_datasets.update(hyperliquid_data)
collect_hyperliquid_data ==
    /\ pl_pc \in {"ETH", "BTC"}
    /\ IF pl_manager.hyperliquid = "none"
       THEN /\ pl_pc' = "summary"
            /\ UNCHANGED <<sink, collection_log, all_datasets, trace>>
       ELSE LET cls == pl_manager.hyperliquid
                sym == pl_pc
            IN \E md \in market_data_outcomes(cls), mw \in WriteOutcomes,
                  fu \in funding_outcomes(cls), fw \in WriteOutcomes,
                  tr \in recent_trades_outcomes(cls), tw \in WriteOutcomes :
                LET s0 == [files |-> sink, log |-> collection_log,
                           datasets |-> all_datasets, raised |-> FALSE]
                    s1 == stage(s0, "hyperliquid", sym \o "_ohlcv", cycle,
                                md, mw, TRUE)
                    s2 == stage(s1, "hyperliquid", sym \o "_funding", cycle,
                                fu, fw, TRUE)
                    s3 == stage(s2, "hyperliquid", sym \o "_trades", cycle,
                                tr, tw, FALSE)
                IN /\ sink' = s3.files
                   /\ collection_log' = s3.log
                   /\ all_datasets' = s3.datasets
                   /\ trace' = WithEntry(trace, sym,
                                         trace_entry(md, mw, s3.raised))
                   /\ pl_pc' = after_symbol(sym, s3.raised)
    /\ UNCHANGED <<pl_manager, log_file, cycle, summary, sched, sched_min,
                   sched_runs, interval_minutes>>
    /\ UNCHANGED bf_vars
    /\ UNCHANGED pv_vars

\* the tail of run_full_collection: the summary, then the whole in-memory
\* log written over collection_log.parquet, outside any try; the locals of
\* the cycle end with it
run_full_collection_return ==
    /\ pl_pc = "summary"
    /\ pl_pc' = "idle"
    /\ \E save \in WriteOutcomes :
        IF Len(collection_log) > 0 /\ save = "raise"
        THEN /\ summary' = NoSummary
             /\ sched' = IF sched = "collecting" THEN "crashed" ELSE sched
             /\ UNCHANGED <<log_file, sched_min, sched_runs>>
        ELSE /\ summary' =
                   [timestamp          |-> cycle,
                    datasets_collected |-> Cardinality(DOMAIN all_datasets),
                    total_rows         |-> total_rows(all_datasets),
                    elapsed_seconds    |-> 0,
                    datasets           |-> DOMAIN all_datasets]
             /\ log_file' = IF Len(collection_log) > 0 THEN collection_log
                            ELSE log_file
             /\ IF sched = "collecting"
                THEN /\ sched' = "sleeping"
                     /\ sched_min' = 0
                     /\ sched_runs' = sched_runs + 1
                ELSE UNCHANGED <<sched, sched_min, sched_runs>>
    /\ all_datasets' = << >>
    /\ trace' = << >>
    /\ UNCHANGED <<pl_manager, sink, collection_log, cycle, interval_minutes>>
    /\ UNCHANGED bf_vars
    /\ UNCHANGED pv_vars

(***************************************************************************)
(* DataPipeline.schedule_collection                                        *)
(***************************************************************************)
IntervalChoices == {1, 2}

\* schedule.every(interval_minutes).minutes.do(self.run_full_collection):
\* the job is first due interval_minutes after this call
schedule_collection ==
    /\ pl_pc = "idle"
    /\ sched = "off"
    /\ \E iv \in IntervalChoices : interval_minutes' = iv
    /\ sched' = "polling"
    /\ sched_min' = 0
    /\ sched_runs' = 0
    /\ UNCHANGED <<pl_pc, pl_manager, sink, collection_log, log_file, cycle,
                   all_datasets, trace, summary>>
    /\ UNCHANGED bf_vars
    /\ UNCHANGED pv_vars

\* schedule.run_pending(): runs the job when it is due, else returns and the
\* loop goes to time.sleep(60)
run_pending ==
    /\ sched = "polling"
    /\ IF sched_min >= interval_minutes
       THEN /\ cycle < MaxCycles
            /\ begin_cycle
            /\ sched' = "collecting"
       ELSE /\ sched' = "sleeping"
            /\ UNCHANGED <<pl_pc, cycle, all_datasets, trace>>
    /\ UNCHANGED <<pl_manager, sink, collection_log, log_file, summary,
                   sched_min, sched_runs, interval_minutes>>
    /\ UNCHANGED bf_vars
    /\ UNCHANGED pv_vars

\* time.sleep(60) returns: one more minute has passed
sleep_returns ==
    /\ sched = "sleeping"
    /\ sched' = "polling"
    /\ sched_min' = Min(sched_min + 1, interval_minutes)
    /\ UNCHANGED <<pl_pc, pl_manager, sink, collection_log, log_file, cycle,
                   all_datasets, trace, summary, sched_runs,
                   interval_minutes>>
    /\ UNCHANGED bf_vars
    /\ UNCHANGED pv_vars

\* Ctrl+C: KeyboardInterrupt is raised wherever the loop is; it is not an
\* Exception, so the handlers inside the cycle let it through to the except
\* of schedule_collection
keyboard_interrupt ==
    /\ sched \in {"polling", "sleeping", "collecting"}
    /\ sched' = "stopped"
    /\ pl_pc' = IF sched = "collecting" THEN "aborted" ELSE pl_pc
    /\ UNCHANGED <<pl_manager, sink, collection_log, log_file, cycle,
                   all_datasets, trace, summary, sched_min, sched_runs,
                   interval_minutes>>
    /\ UNCHANGED bf_vars
    /\ UNCHANGED pv_vars

\* collection cycles run one by one on a pipeline
NextPipeline ==
    \/ DataPipeline_init
    \/ DataPipeline_init_factory_setup
    \/ pipeline_add_provider
    \/ run_full_collection
    \/ collect_dune_data
    \/ collect_hyperliquid_data
    \/ run_full_collection_return

SpecPipeline == Init /\ [][NextPipeline]_vars

\* the scheduled loop of a pipeline set up by the factory
NextScheduler ==
    \/ DataPipeline_init_factory_setup
    \/ schedule_collection
    \/ run_pending
    \/ sleep_returns
    \/ keyboard_interrupt
    \/ collect_dune_data
    \/ collect_hyperliquid_data
    \/ run_full_collection_return

SpecScheduler == Init /\ [][NextScheduler]_vars

\* scheduled loops of one pipeline after another on one data directory
NextRestart ==
    \/ DataPipeline_init_factory_setup
    \/ DataPipeline_init_again
    \/ schedule_collection
    \/ run_pending
    \/ sleep_returns
    \/ keyboard_interrupt
    \/ collect_dune_data
    \/ collect_hyperliquid_data
    \/ run_full_collection_return

SpecRestart == Init /\ [][NextRestart]_vars

(***************************************************************************)
(* Properties of the backfill                                              *)
(***************************************************************************)
NoDuplicateKeys(df) ==
    \A i \in 1..Len(df), j \in 1..Len(df) : SameKey(df[i], df[j]) => i = j

\* C1: the series returned by get_long_term_data is sorted ascending by open
\* time and has no two rows with the same (symbol, open time), whatever rows
\* the chunk requests return.
C1_SortedNoDuplicates ==
    bf_pc = "done" =>
        IsSortedByDatetime(complete_df) /\ NoDuplicateKeys(complete_df)

\* the part of C1 the merge does establish: no duplicate keys in the result
C1_NoDuplicatesOnly ==
    bf_pc = "done" => NoDuplicateKeys(complete_df)

\* C2: a 1h backfill over two days (day 0 to day 2) issues exactly two chunk
\* requests, for the windows [day 0, day 1) and [day 1, day 2).
C2_TwoChunkRequests ==
    (bf_pc = "done" /\ interval = "1h" /\ start_dt = 0 /\ end_dt = 2) =>
        windows = << [startTime |-> timestamp_ms(0), endTime |-> timestamp_ms(1)],
                     [startTime |-> timestamp_ms(1), endTime |-> timestamp_ms(2)] >>

\* C3: a chunk whose fetch failed is told apart from a chunk that returned no
\* rows: the value handed back for the failed chunk is not the empty frame
\* that stands for "no data".
C3_FailedChunkDistinguishable ==
    fetch_outcome = "failed" => chunk_data # EmptyDataFrame

\* C4: a backfill with start >= end issues no chunk request, raises no error
\* and returns the empty series.
C4_EmptyRange ==
    (bf_pc # "idle" /\ start_dt >= end_dt) =>
        /\ windows = << >>
        /\ bf_pc # "raised"
        /\ bf_pc = "done" => complete_df = EmptyDataFrame

C4_Witness ==
    /\ bf_pc = "done"
    /\ start_dt = end_dt
    /\ start_dt > 0
    /\ complete_df = EmptyDataFrame

\* the frames of all_data taken in the order p
Resequenced(frames, p) == [i \in 1..Len(frames) |-> frames[p[i]]]

\* C5: the merged output is the same series, in the same row order, for
\* every order in which the chunk results are concatenated.
C5_OrderIndependent ==
    (bf_pc = "done" /\ all_data # << >>) =>
        \A p \in Permutations(1..Len(all_data)) :
            merge(Resequenced(all_data, p)) = complete_df

\* the chunks of all_data that hold a row with the key of r
ChunksWithKey(r) ==
    {i \in 1..Len(all_data) :
        \E k \in 1..Len(all_data[i]) : SameKey(all_data[i][k], r)}

FirstChunkWithKey(r) ==
    CHOOSE i \in ChunksWithKey(r) : \A j \in ChunksWithKey(r) : i <= j

\* C6: for every key some chunk returned, the merged output keeps exactly one
\* row with that key and that row comes from the first chunk, in
\* concatenation order, that returned the key.
C6_FirstSeenWins ==
    bf_pc = "done" =>
        \A i \in 1..Len(all_data) : \A k \in 1..Len(all_data[i]) :
            LET r    == all_data[i][k]
                kept == {n \in 1..Len(complete_df) : SameKey(complete_df[n], r)}
                src  == all_data[FirstChunkWithKey(r)]
            IN  /\ Cardinality(kept) = 1
                /\ \A n \in kept :
                     \E m \in 1..Len(src) : src[m] = complete_df[n]

\* two chunks returned the same key with different closes, and the merge ran
C6_Witness ==
    /\ bf_pc = "done"
    /\ Len(all_data) >= 2
    /\ \E k \in 1..Len(all_data[1]), m \in 1..Len(all_data[2]) :
          /\ SameKey(all_data[1][k], all_data[2][m])
          /\ all_data[1][k].close # all_data[2][m].close
          /\ \A q \in 1..Len(all_data[2]) :
                all_data[2][q].close = all_data[2][m].close
          /\ \A q \in 1..Len(all_data[1]) :
                all_data[1][q].close = all_data[1][k].close

(***************************************************************************)
(* Properties of the rate limiter, the request layer and the manager       *)
(***************************************************************************)
\* C7: no provider registered with the manager has a rate limit of zero
\* requests per minute, so _rate_limit_wait never divides by zero on a
\* registered provider.
C7_ZeroRateRejected ==
    \A n \in DOMAIN providers : objects[providers[n]].rate_limit # 0

\* C8: on one instance, two consecutive returns of _rate_limit_wait are at
\* least 60 / rate_limit seconds apart (gap * rate_limit >= 60000 ms), and
\* the instance holds the time of the latest return.
C8_MinSpacing ==
    \A idx \in 1..Len(objects) :
        LET rets == acquire_returns[idx] IN
        /\ \A i \in 1..Len(rets) - 1 :
              (rets[i + 1] - rets[i]) * objects[idx].rate_limit >= MsPerMinute
        /\ rets # << >> => objects[idx].last_request_time = rets[Len(rets)]

\* an instance was used twice in a row and the second call had to sleep for
\* exactly the remaining part of the interval
C8_Witness ==
    \E idx \in 1..Len(objects) :
        /\ Len(acquire_returns[idx]) >= 2
        /\ objects[idx].rate_limit = DuneRateLimit
        /\ (acquire_returns[idx][2] - acquire_returns[idx][1])
              * objects[idx].rate_limit = MsPerMinute
        /\ now = acquire_returns[idx][2]

\* C9: every request that reaches the network was preceded, on its request
\* path, by _rate_limit_wait of the issuing provider.
C9_RequestsPassLimiter ==
    last_net # NoRequest => last_net.limited

\* C10: a request that failed (timeout, connection failure, non-2xx status,
\* undecodable body) reaches the caller of the request layer as an error.
C10_FailuresReported ==
    (last_net # NoRequest /\ last_net.outcome \in FailureOutcomes) =>
        last_ret.kind = "error"

\* C11: test_all_connections returns one boolean per registered provider: a
\* provider whose validate_connection raised maps to False, every other one
\* maps to what its validate_connection returned, and the call returns
C11_ConnectionsIsolated ==
    last_ret.op = "test_all_connections" =>
        /\ last_ret.kind = "value"
        /\ DOMAIN last_ret.value = DOMAIN providers
        /\ \A n \in DOMAIN providers :
            /\ last_ret.value[n] \in {"True", "False"}
            /\ last_ret.validated[n] = "raise" => last_ret.value[n] = "False"
            /\ last_ret.validated[n] # "raise" =>
                   last_ret.value[n] = last_ret.validated[n]

\* two providers are registered, one raised in validate_connection and maps
\* to False, the other answered True and maps to True
C11_Witness ==
    /\ last_ret.op = "test_all_connections"
    /\ \E n, m \in DOMAIN providers :
        /\ n # m
        /\ last_ret.validated[n] = "raise" /\ last_ret.value[n] = "False"
        /\ last_ret.validated[m] = "True" /\ last_ret.value[m] = "True"

ShippedClasses == {"DuneProvider", "HyperliquidProvider", "BinanceProvider"}

\* C12 as stated: validate_connection of every shipped provider issues
\* exactly one request, returns a boolean, and returns False whenever the
\* underlying request failed
C12_ExactlyOneRequest ==
    (last_ret.op = "validate_connection" /\ last_ret.cls \in ShippedClasses) =>
        /\ last_ret.requests = 1
        /\ last_ret.kind = "value"
        /\ last_ret.value \in {"True", "False"}
        /\ last_ret.failed => last_ret.value = "False"

\* C12 amended: validate_connection of every shipped provider returns a
\* boolean, never raises, and returns False whenever an underlying request
\* failed; Hyperliquid issues one request, Binance one (the spot ping raised)
\* or two (spot and futures), Dune none (fresh cache entry) or one
C12_ValidateNeverRaises ==
    (last_ret.op = "validate_connection" /\ last_ret.cls \in ShippedClasses) =>
        /\ last_ret.kind = "value"
        /\ last_ret.value \in {"True", "False"}
        /\ last_ret.failed => last_ret.value = "False"
        /\ last_ret.cls = "HyperliquidProvider" => last_ret.requests = 1
        /\ last_ret.cls = "BinanceProvider" => last_ret.requests \in {1, 2}
        /\ last_ret.cls = "DuneProvider" => last_ret.requests \in {0, 1}

\* Binance pinged spot and futures, one of them failed, and the call
\* returned False
C12_Witness ==
    /\ last_ret.op = "validate_connection"
    /\ last_ret.cls = "BinanceProvider"
    /\ last_ret.requests = 2
    /\ last_ret.failed
    /\ last_ret.value = "False"

\* C19: setup_providers returns a manager whatever the credentials are, with
\* Hyperliquid registered unless its own construction raised
C19_SetupNeverFails ==
    last_ret.op \in {"setup_providers", "factory.setup_providers"} =>
        /\ last_ret.kind = "value"
        /\ last_ret.hl_ok => "hyperliquid" \in DOMAIN providers

\* what the claim says holds of the setup_providers that factory.py defines
C19_FactorySetupIsolates ==
    last_ret.op = "factory.setup_providers" =>
        /\ last_ret.kind = "value"
        /\ last_ret.hl_ok <=> "hyperliquid" \in DOMAIN providers
        /\ (last_ret.has_key /\ last_ret.dune_ok) <=> "dune" \in DOMAIN providers

\* C20: get_health_status maps every registered provider to a record with a
\* status, a time of the check and a request count, not to an error record
C20_HealthRecords ==
    last_ret.op = "get_health_status" =>
        \A n \in DOMAIN last_ret.value :
            /\ "error" \notin DOMAIN last_ret.value[n]
            /\ {"status", "last_check", "request_count"}
                   \subseteq DOMAIN last_ret.value[n]

\* the call found a cache entry and was allowed to use it
CacheConsulted ==
    /\ last_ret.op = "get_query_result"
    /\ last_ret.use_cache
    /\ last_ret.found # NoEntry

\* the age, at the call, of the entry the call found
FoundAge == last_ret.at - last_ret.found.cached_time

\* C13 as stated: a cached result is returned without an upstream call
\* exactly while now - inserted_at <= cache_ttl
C13_FreshThroughTTL ==
    CacheConsulted =>
        ((FoundAge <= CacheDuration) <=> (last_net = NoRequest))

\* C13 amended: a cached result is returned, without an upstream call,
\* exactly while now - inserted_at < cache_ttl; from age cache_ttl on the
\* entry is stale and the read goes upstream, so no value as old as the TTL
\* is returned from the cache
C13_FreshBelowTTL ==
    CacheConsulted =>
        /\ (FoundAge < CacheDuration) <=> (last_net = NoRequest)
        /\ last_net = NoRequest =>
              /\ last_ret.kind = "value"
              /\ last_ret.value = last_ret.found.data
              /\ objects[last_ret.obj].query_cache = last_ret.found
        /\ (last_net # NoRequest /\ last_ret.kind = "value") =>
              objects[last_ret.obj].query_cache =
                  [cached_time |-> last_ret.at, data |-> last_ret.value]

\* a read found an entry exactly cache_ttl old and fetched upstream
C13_Witness ==
    /\ CacheConsulted
    /\ FoundAge = CacheDuration
    /\ last_net # NoRequest
    /\ last_ret.kind = "value"

\* the first dataset file of a provider or symbol in the running cycle
FirstFile(u) ==
    IF u = "dune" THEN dataset_file("dune", "bot_volume", cycle)
    ELSE dataset_file("hyperliquid", u \o "_ohlcv", cycle)

\* C14: when the collection of a cycle is over, every registered provider
\* and every symbol has been tried, whatever failed before it, and each one
\* whose fetch returned rows and whose write succeeded has its file in the
\* sink
C14_FailuresIsolated ==
    pl_pc = "summary" =>
        /\ pl_manager.dune => "dune" \in DOMAIN trace
        /\ pl_manager.hyperliquid # "none" =>
               {"ETH", "BTC"} \subseteq DOMAIN trace
        /\ \A u \in DOMAIN trace :
               (trace[u].fetch = "rows" /\ trace[u].write = "ok") =>
                   FirstFile(u) \in sink

\* the fetch of one provider or symbol raised, and a later one was still
\* fetched and written in the same cycle
C14_Witness ==
    /\ pl_pc = "summary"
    /\ \E u \in DOMAIN trace :
        /\ trace[u].fetch = "raise"
        /\ FirstFile(u) \notin sink
        /\ \E v \in DOMAIN trace \ {u, "dune"} :
            /\ (u = "dune" \/ v = "BTC")
            /\ trace[v].fetch = "rows"
            /\ FirstFile(v) \in sink

\* C15: the summary a cycle returns carries datasets_collected, total_rows
\* and failed_ranges
C15_SummaryListsGaps ==
    summary # NoSummary =>
        {"datasets_collected", "total_rows", "failed_ranges"}
            \subseteq DOMAIN summary

\* C16: every dataset file in the sink has exactly one record in the
\* collection log, and every record names a file in the sink
C16_OneRecordPerFile ==
    /\ \A f \in sink :
          Cardinality({i \in 1..Len(collection_log) :
                          collection_log[i].file = f}) = 1
    /\ \A i \in 1..Len(collection_log) : collection_log[i].file \in sink

\* C17: when the scheduled loop has been stopped, no cycle is left half done
C17_StopWaitsForCycle ==
    sched = "stopped" => pl_pc = "idle"

\* C18: the scheduled loop sleeps only after it has run a cycle
C18_CycleBeforeSleep ==
    sched = "sleeping" => sched_runs > 0

\* the fixed column table of get_market_data
HlTable == {"t", "T", "s", "i", "o", "c", "h", "l", "v", "n"}

\* C21: every raw field outside the column table is a column unknown_<field>
\* of the frame get_market_data returns
C21_UnknownFieldsKept ==
    (last_ret.op = "get_market_data" /\ last_ret.value = "rows") =>
        \A f \in last_ret.raw_columns \ HlTable :
            ("unknown_" \o f) \in column_set(last_ret.frame.columns)

\* C22: the frame a single fetch returns is sorted ascending by open time
\* and has no two rows with the same open time
C22_SortedUniqueOpenTimes ==
    /\ (last_ret.op = "get_market_data" /\ last_ret.value = "rows"
            /\ last_ret.frame.index = "timestamp") =>
           LET rows == last_ret.frame.rows
           IN \A i, j \in 1..Len(rows) :
                  i < j => dt_less(rows[i].timestamp, rows[j].timestamp)
    /\ (last_ret.op = "get_historical_klines" /\ last_ret.kind = "value") =>
           LET rows == last_ret.frame
           IN \A i, j \in 1..Len(rows) :
                  i < j => dt_less(rows[i].datetime, rows[j].datetime)

\* what holds of a single fetch: the rows are in ascending order of open
\* time, rows of equal open time included
C22_SortedOnly ==
    /\ (last_ret.op = "get_market_data" /\ last_ret.value = "rows"
            /\ last_ret.frame.index = "timestamp") =>
           IsSortedByTimestamp(last_ret.frame.rows)
    /\ (last_ret.op = "get_historical_klines" /\ last_ret.kind = "value") =>
           IsSortedByDatetime(last_ret.frame)

\* C23: a backfill with an interval outside the table does not fail on the
\* interval, and its chunk span is the one of a daily interval: 1000 days
C23_UnknownIntervalAsDaily ==
    (bf_pc # "idle" /\ interval \notin TableIntervals) =>
        /\ max_days_per_request(interval) = MaxRowsPerCall
        /\ bf_pc = "raised" => market_type \notin {"spot", "futures"}
        /\ \A i \in 1..Len(windows) :
              windows[i].endTime \div MsPerDay =
                  Min(windows[i].startTime \div MsPerDay + MaxRowsPerCall,
                      end_dt)

\* a backfill with the interval 10d has issued a chunk and returned
C23_Witness ==
    /\ bf_pc = "done"
    /\ interval = "10d"
    /\ start_dt < end_dt
    /\ Len(windows) >= 1

\* the minutes of an interval of the table, as the table of the source
\* gives them
TableMinutes ==
    [iv \in TableIntervals |->
        CASE iv = "1m"  -> 1     [] iv = "3m"  -> 3   [] iv = "5m"  -> 5
          [] iv = "15m" -> 15    [] iv = "30m" -> 30  [] iv = "1h"  -> 60
          [] iv = "2h"  -> 120   [] iv = "4h"  -> 240 [] iv = "6h"  -> 360
          [] iv = "8h"  -> 480   [] iv = "12h" -> 720 [] iv = "1d"  -> 1440
          [] iv = "3d"  -> 4320  [] iv = "1w"  -> 10080
          [] OTHER      -> 43800]

\* C24: for every interval of the table, a chunk starts one interval
\* duration after the end of the window of the chunk before it
C24_NextStartOneInterval ==
    interval \in TableIntervals =>
        \A i \in 1..Len(windows) - 1 :
            windows[i + 1].startTime =
                windows[i].endTime + TableMinutes[interval] * MsPerMinute

\* C25: when the backfill has returned, the start of the range and the first
\* candle open time after the end of each chunk window, if before end, lie
\* in the window of some chunk request
C25_WindowsCoverRange ==
    (bf_pc = "done" /\ start_dt < end_dt /\ interval \in TableIntervals) =>
        \A t \in {timestamp_ms(start_dt)} \cup
                 {windows[i].endTime + TableMinutes[interval] * MsPerMinute
                      : i \in 1..Len(windows)} :
            t < timestamp_ms(end_dt) =>
                \E j \in 1..Len(windows) :
                    windows[j].startTime <= t /\ t <= windows[j].endTime

\* C26: for every interval of the table, every chunk window is non-empty and
\* at most 1000 intervals long
C26_WindowsWithinCap ==
    interval \in TableIntervals =>
        \A i \in 1..Len(windows) :
            /\ windows[i].endTime > windows[i].startTime
            /\ (windows[i].endTime - windows[i].startTime) \div MsPerMinute
                   <= MaxRowsPerCall * TableMinutes[interval]

\* C27: current_start grows at every iteration, no window is requested
\* twice, and a backfill that has started its loop returns or raises
C27_TerminatesNoRetry ==
    /\ [][(bf_pc = "loop" /\ windows' # windows) =>
             /\ current_start' > current_start
             /\ Len(windows') = Len(windows) + 1]_vars
    /\ [](\A i, j \in 1..Len(windows) : i # j => windows[i] # windows[j])
    /\ (bf_pc = "loop" ~> bf_pc \in {"done", "raised"})

\* a backfill of several chunks has returned although its last chunk
\* request failed
C27_Witness ==
    /\ bf_pc = "done"
    /\ start_dt < end_dt
    /\ Len(windows) >= 2
    /\ fetch_outcome = "failed"

\* C28: a call of get_query_result whose upstream fetch failed hands the
\* error to its caller and leaves the cache entry as the call found it; the
\* entry differs from the one found only after a successful fetch
C28_FailedFetchKeepsCache ==
    last_ret.op = "get_query_result" =>
        /\ last_net \notin {NoRequest} /\ last_net.outcome \in FailureOutcomes =>
              /\ last_ret.kind = "error"
              /\ objects[last_ret.obj].query_cache = last_ret.found
        /\ objects[last_ret.obj].query_cache # last_ret.found =>
              /\ last_ret.kind = "value"
              /\ last_net # NoRequest
              /\ last_net.outcome = "ok"

\* a fetch failed while a stale entry was in the cache, and the entry is
\* still there
C28_Witness ==
    /\ last_ret.op = "get_query_result"
    /\ last_ret.kind = "error"
    /\ last_ret.found # NoEntry
    /\ last_ret.at - last_ret.found.cached_time >= CacheDuration
    /\ objects[last_ret.obj].query_cache = last_ret.found

\* C29: the persisted collection log only grows: every step leaves the
\* records it held in place and unmodified
C29_PersistedLogAppendOnly ==
    [][/\ Len(log_file') >= Len(log_file)
       /\ \A i \in 1..Len(log_file) : log_file'[i] = log_file[i]]_vars

\* C30: add_provider(name, p) makes p the provider under name, replacing an
\* earlier one, and leaves the other names alone; remove_provider(name)
\* takes name out and changes nothing when it is not registered;
\* get_provider(name) changes nothing and returns the provider registered
\* under name, absent when there is none; get_active_providers and the keys
\* of test_all_connections are exactly the registered names.
C30_RegistryCalls ==
    [][/\ last_ret'.op = "add_provider" =>
            /\ DOMAIN providers' = DOMAIN providers \cup {last_ret'.name}
            /\ providers'[last_ret'.name] = last_ret'.provider
            /\ \A n \in DOMAIN providers \ {last_ret'.name} :
                   providers'[n] = providers[n]
       /\ last_ret'.op = "remove_provider" =>
            /\ DOMAIN providers' = DOMAIN providers \ {last_ret'.name}
            /\ \A n \in DOMAIN providers' : providers'[n] = providers[n]
       /\ last_ret'.op = "get_provider" =>
            /\ providers' = providers
            /\ last_ret'.name \in DOMAIN providers =>
                   last_ret'.value = providers[last_ret'.name]
            /\ last_ret'.name \notin DOMAIN providers =>
                   last_ret'.value = NoProvider
       /\ last_ret'.op = "get_active_providers" =>
            /\ providers' = providers
            /\ Len(last_ret'.value) = Cardinality(DOMAIN providers)
            /\ {last_ret'.value[i] : i \in 1..Len(last_ret'.value)}
                   = DOMAIN providers
       /\ last_ret'.op = "test_all_connections" =>
            /\ providers' = providers
            /\ DOMAIN last_ret'.value = DOMAIN providers]_vars

\* a provider added under a name that held another one was looked up, after
\* the other name had been removed
C30_Witness ==
    /\ last_ret.op = "get_provider"
    /\ last_ret.name = "dune"
    /\ last_ret.value = 2
    /\ Len(objects) = 2
    /\ objects[1].cls = "DuneProvider"
    /\ DOMAIN providers = {"dune"}

====
